---- MODULE Spec2Model ----
(***************************************************************************)
(* Key-matrix scanner of the pterosphera prototype firmware.               *)
(*                                                                         *)
(* kmx_nextRow (keymatrix/kmx.c) is the only operation of the scanner.  It *)
(* takes the reporter and nothing else: it reads no sample, keeps no table *)
(* and hands one fixed kmx_key to the reporter on every call.  The model   *)
(* puts that operation into the environment it is documented to serve: a   *)
(* matrix of switches whose readings change between calls, and a caller    *)
(* that invokes the operation once per row, row after row.  The switch     *)
(* readings and the per-call record are kept as history so that properties *)
(* over runs of scan passes can be written as state predicates.            *)
(***************************************************************************)
EXTENDS Integers, Sequences, FiniteSets, TLC

\* enum kmx_keystate{DOWN, UP}: C numbers the enumerators from 0.
DOWN == 0
UP == 1
\* readInput returned nothing for the cell.
NONE == 2

KeyStates == {DOWN, UP}
Readings == {DOWN, UP, NONE}

\* Bounds of the model.
MaxOut == 3
MaxIn == 5
MaxCalls == 6
MaxActuations == 2
MaxT == 3

VARIABLES
    KMX_ROWS,      \* configured number of out lines (main.h)
    KMX_COLS,      \* configured number of in lines (main.h)
    debounceThreshold, \* configured T; the scanner has no code that reads it
    switches,      \* what the sampler would read for each cell right now
    actuations,    \* how many times the environment changed a reading
    calls,         \* one record per call of kmx_nextRow, oldest first
    requested,     \* the coordinates the scanner asked the sampler for, oldest first
    reported,      \* the kmx_key values handed to the reporter, oldest first
    stdout         \* the lines reportKey printed, as <<first, second, third>> numbers

vars == <<KMX_ROWS, KMX_COLS, debounceThreshold, switches, actuations, calls, requested,
          reported, stdout>>

OUT_LINES == KMX_ROWS
IN_LINES == KMX_COLS

\* kmx_matrix[KMX_ROWS][KMX_COLS]: one entry per coordinate.
Cells == (0 .. (KMX_ROWS - 1)) \X (0 .. (KMX_COLS - 1))

Init ==
    /\ KMX_ROWS \in 1 .. MaxOut
    /\ KMX_COLS \in 1 .. MaxIn
    /\ debounceThreshold \in 1 .. MaxT
    /\ \E held \in KeyStates :
          switches = [c \in (0 .. (KMX_ROWS - 1)) \X (0 .. (KMX_COLS - 1)) |-> held]
    /\ actuations = 0
    /\ calls = << >>
    /\ requested = << >>
    /\ reported = << >>
    /\ stdout = << >>

\* A switch closes, opens, or its reading becomes unavailable.
Actuate ==
    /\ actuations < MaxActuations
    /\ \E c \in Cells : \E v \in Readings :
          /\ v # switches[c]
          /\ switches' = [switches EXCEPT ![c] = v]
    /\ actuations' = actuations + 1
    /\ UNCHANGED <<KMX_ROWS, KMX_COLS, debounceThreshold, calls, requested, reported, stdout>>

\* printf("Reporting Key: %ix%i %i\n", k.coord.inIx, k.coord.outIx, k.state)
reportKey(k) ==
    stdout' = Append(stdout, <<k.coord.inIx, k.coord.outIx, k.state>>)

\* The key the scanner builds before it calls the reporter.
kmx_key == [coord |-> [inIx |-> 4, outIx |-> 2], state |-> DOWN]

\* The scanner with k.state left unassigned: the reporter gets whatever state the
\* uninitialised field holds.
kmx_nextRow_unassigned(reporter) ==
    /\ requested' = requested
    /\ \E st \in KeyStates :
          /\ reported' = Append(reported, [kmx_key EXCEPT !.state = st])
          /\ reporter = "reportKey"
          /\ reportKey([kmx_key EXCEPT !.state = st])

\* The body strobes no line and reads no input: nothing is asked of the sampler.
kmx_nextRow(reporter) ==
    /\ requested' = requested
    /\ reported' = Append(reported, kmx_key)
    /\ reporter = "reportKey"
    /\ reportKey(kmx_key)

\* The out line a call is due to strobe: the next one, starting at 0.
nextRow == Len(calls) % OUT_LINES

\* One call of the scanner by its caller, with what the matrix showed then.
Call ==
    /\ Len(calls) < MaxCalls
    /\ kmx_nextRow("reportKey")
    /\ calls' = Append(calls,
                  [outIx |-> nextRow,
                   samples |-> [i \in 0 .. (IN_LINES - 1) |-> switches[<<nextRow, i>>]],
                   asked |-> Len(requested'),
                   upto |-> Len(reported')])
    /\ UNCHANGED <<KMX_ROWS, KMX_COLS, debounceThreshold, switches, actuations>>

\* main(): the program's one call.
main == Len(calls) = 0 /\ Call

\* Every later call, by the periodic caller the scanner is written for.
Tick == Len(calls) > 0 /\ Call

Next == Actuate \/ main \/ Tick

Spec == Init /\ [][Next]_vars

\* The smallest matrix that holds the coordinate the scanner reports.
FitRows == kmx_key.coord.outIx + 1
FitCols == kmx_key.coord.inIx + 1

\* The same program on the two matrices that matter to what it reports, the 1x1
\* one and the smallest one that holds the reported coordinate, with the
\* threshold (which no code reads) at its largest.
FeedInit ==
    /\ Init
    /\ <<KMX_ROWS, KMX_COLS>> \in {<<1, 1>>, <<FitRows, FitCols>>}
    /\ debounceThreshold = MaxT

FeedSpec == FeedInit /\ [][Next]_vars

(***************************************************************************)
(* Reading the history.                                                    *)
(***************************************************************************)
T == debounceThreshold

Max(S) == CHOOSE x \in S : \A y \in S : y <= x

Coord(c) == [outIx |-> c[1], inIx |-> c[2]]

\* The calls in which cell c was due to be sampled, and what it showed then.
Scans(c) == {k \in 1 .. Len(calls) : calls[k].outIx = c[1]}
Sample(c, k) == calls[k].samples[c[2]]

\* reported[First(k)] .. reported[Last(k)] are the reports made during call k.
First(k) == IF k = 1 THEN 1 ELSE calls[k - 1].upto + 1
Last(k) == calls[k].upto
EventsIn(a, b) == First(a) .. Last(b)
EventsFor(c, a, b) == {n \in EventsIn(a, b) : reported[n].coord = Coord(c)}

\* The confirmed state of a coordinate as the reporter was told it: the state of
\* the last report for it among the first n reports, Up when there is none.
confirmedAt(co, n) ==
    LET E == {m \in 1 .. n : reported[m].coord = co}
    IN  IF E = {} THEN UP ELSE reported[Max(E)].state
confirmedBefore(c, k) == confirmedAt(Coord(c), First(k) - 1)
confirmedAfter(c, k) == confirmedAt(Coord(c), Last(k))

\* The scans of c from a to b, and those of them that delivered a sample.
Run(c, a, b) == {k \in Scans(c) : a <= k /\ k <= b}
Delivered(c, a, b) == {k \in Run(c, a, b) : Sample(c, k) # NONE}

\* Scan k delivers the n-th or a later consecutive agreeing sample of state s.
Agreeing(c, k, n, s) ==
    /\ k \in Scans(c)
    /\ Sample(c, k) = s
    /\ \E a \in Scans(c) :
          /\ a <= k
          /\ Cardinality(Delivered(c, a, k)) >= n
          /\ \A j \in Delivered(c, a, k) : Sample(c, j) = s

(***************************************************************************)
(* The contract of the scan engine, statement by statement.                *)
(***************************************************************************)

\* C1 (debounce convergence): whenever a cell's samples are one constant state s
\* over at least T consecutive scan passes and the cell's confirmed state differed
\* from s when the run began, exactly one event is reported for the cell over the
\* run, it carries s, and the confirmed state is s afterwards.
C1_DebounceConvergence ==
    \A c \in Cells : \A s \in KeyStates : \A a \in Scans(c) : \A b \in Scans(c) :
        ( /\ a <= b
          /\ Cardinality(Run(c, a, b)) >= T
          /\ \A k \in Run(c, a, b) : Sample(c, k) = s
          /\ confirmedBefore(c, a) # s )
        => /\ Cardinality(EventsFor(c, a, b)) = 1
           /\ \A n \in EventsFor(c, a, b) : reported[n].state = s
           /\ confirmedAfter(c, b) = s

\* C2 (bounce rejection): as long as a cell's samples since power-on contain no
\* run of T consecutive agreeing samples, the reporter has not been invoked for
\* the cell and its confirmed state is still the initial Up.
C2_BounceRejection ==
    \A c \in Cells :
        (\A k \in Scans(c) : \A s \in KeyStates : ~Agreeing(c, k, T, s))
        => /\ calls # << >> => EventsFor(c, 1, Len(calls)) = {}
           /\ confirmedAt(Coord(c), Len(reported)) = UP

\* C3 (idempotence of stable state): from a call that samples a cell in the state
\* already confirmed for it, over any stretch of further calls in which every
\* sample of the cell is that same state, the reporter is not invoked for the cell.
C3_StableIdempotence ==
    \A c \in Cells : \A a \in Scans(c) : \A b \in a .. Len(calls) :
        (\A k \in Run(c, a, b) : Sample(c, k) = confirmedBefore(c, a))
        => EventsFor(c, a, b) = {}

\* C4 (coordinate fidelity): every event reported during a call carries the out
\* line strobed by that call and the in line of a cell of that line whose sample
\* in that call is the reported state and changed the cell's confirmed state.
C4_CoordinateFidelity ==
    \A k \in 1 .. Len(calls) : \A n \in EventsIn(k, k) :
        /\ reported[n].coord.outIx = calls[k].outIx
        /\ reported[n].coord.inIx \in 0 .. (IN_LINES - 1)
        /\ calls[k].samples[reported[n].coord.inIx] = reported[n].state
        /\ confirmedAt(reported[n].coord, n - 1) # reported[n].state

\* C5 (missing-sample resilience): a call in which the sampler has no sample for
\* a cell reports nothing for it and leaves its confirmed state alone, and a run
\* of scans that delivers s at least T times and otherwise only missing samples,
\* begun while the confirmed state differed from s, ends with s confirmed.
C5_MissingSampleResilience ==
    \A c \in Cells :
        /\ \A k \in Scans(c) :
              Sample(c, k) = NONE
              => /\ EventsFor(c, k, k) = {}
                 /\ confirmedAfter(c, k) = confirmedBefore(c, k)
        /\ \A s \in KeyStates : \A a \in Scans(c) : \A b \in Scans(c) :
              ( /\ a <= b
                /\ Delivered(c, a, b) # Run(c, a, b)
                /\ Cardinality(Delivered(c, a, b)) >= T
                /\ \A k \in Delivered(c, a, b) : Sample(c, k) = s
                /\ confirmedBefore(c, a) # s )
              => confirmedAfter(c, b) = s

\* C6 (exactly-once reporting per changed cell): in every call the reporter is
\* invoked once for each cell of the strobed line whose confirmed state after the
\* call differs from the one before it, and the number of invocations in the call
\* is the number of those cells.
Changed(k) ==
    {c \in Cells : c[1] = calls[k].outIx /\ confirmedAfter(c, k) # confirmedBefore(c, k)}

C6_ExactlyOncePerChangedCell ==
    \A k \in 1 .. Len(calls) :
        /\ \A c \in Changed(k) : Cardinality(EventsFor(c, k, k)) = 1
        /\ Cardinality(EventsIn(k, k)) = Cardinality(Changed(k))

\* C7 (strobe order): the calls of one full scan strobe the out lines 0, 1, ...,
\* OUT_LINES-1 in that order, the events reported during it are in strictly
\* increasing (outIx, inIx) order, and with T = 1 the first full scan of a 2x2
\* matrix that samples every cell Down reports (0,0),(0,1),(1,0),(1,1), all Down.
Before(p, q) == p.outIx < q.outIx \/ (p.outIx = q.outIx /\ p.inIx < q.inIx)

FullScans == {f \in 1 .. MaxCalls : f * OUT_LINES <= Len(calls)}
FirstCall(f) == (f - 1) * OUT_LINES + 1
LastCall(f) == f * OUT_LINES

AllDown(f) ==
    \A k \in FirstCall(f) .. LastCall(f) : \A i \in 0 .. (IN_LINES - 1) :
        calls[k].samples[i] = DOWN

C7_StrobeOrder ==
    \A f \in FullScans :
        /\ \A k \in FirstCall(f) .. LastCall(f) : calls[k].outIx = k - FirstCall(f)
        /\ \A n \in EventsIn(FirstCall(f), LastCall(f)) :
           \A m \in EventsIn(FirstCall(f), LastCall(f)) :
              n < m => Before(reported[n].coord, reported[m].coord)
        /\ (T = 1 /\ OUT_LINES = 2 /\ IN_LINES = 2 /\ f = 1 /\ AllDown(f))
           => SubSeq(reported, 1, Last(LastCall(f)))
                = << [coord |-> Coord(<<0, 0>>), state |-> DOWN],
                     [coord |-> Coord(<<0, 1>>), state |-> DOWN],
                     [coord |-> Coord(<<1, 0>>), state |-> DOWN],
                     [coord |-> Coord(<<1, 1>>), state |-> DOWN] >>

\* C8 (streak reset timing): an event is reported for a cell only in a call that
\* samples it and delivers the T-th consecutive agreeing sample of a state other
\* than the confirmed one, and that call reports exactly one event for the cell,
\* carrying that state; with T = 3, a cell whose first six samples are Down, Down,
\* Up, Down, Down, Down has no event in its first five scans and exactly one, a
\* Down, in the sixth.
NthScan(c, n) == CHOOSE k \in Scans(c) : Cardinality(Run(c, 1, k)) = n

C8_StreakResetTiming ==
    \A c \in Cells :
        /\ \A k \in 1 .. Len(calls) :
              EventsFor(c, k, k) # {}
              => /\ Agreeing(c, k, T, Sample(c, k))
                 /\ Sample(c, k) # confirmedBefore(c, k)
                 /\ Cardinality(EventsFor(c, k, k)) = 1
                 /\ \A n \in EventsFor(c, k, k) : reported[n].state = Sample(c, k)
        /\ ( /\ T = 3
             /\ Cardinality(Scans(c)) >= 6
             /\ <<Sample(c, NthScan(c, 1)), Sample(c, NthScan(c, 2)),
                  Sample(c, NthScan(c, 3)), Sample(c, NthScan(c, 4)),
                  Sample(c, NthScan(c, 5)), Sample(c, NthScan(c, 6))>>
                  = <<DOWN, DOWN, UP, DOWN, DOWN, DOWN>> )
           => /\ EventsFor(c, 1, NthScan(c, 6) - 1) = {}
              /\ Cardinality(EventsFor(c, NthScan(c, 6), NthScan(c, 6))) = 1
              /\ \A n \in EventsFor(c, NthScan(c, 6), NthScan(c, 6)) :
                    reported[n].state = DOWN

\* C9 (initial state): before any report every cell's confirmed state is Up; as
\* long as every sample taken since power-on is Up no event has been reported,
\* and the first event reported for any coordinate carries Down.
C9_InitialState ==
    /\ reported = << >> => \A c \in Cells : confirmedAt(Coord(c), 0) = UP
    /\ (\A k \in 1 .. Len(calls) : \A i \in 0 .. (IN_LINES - 1) : calls[k].samples[i] = UP)
       => reported = << >>
    /\ \A n \in 1 .. Len(reported) :
          (\A m \in 1 .. (n - 1) : reported[m].coord # reported[n].coord)
          => reported[n].state = DOWN

\* C10 (coordinate bounds): every out line strobed and every coordinate carried
\* by a reported event lies inside the configured matrix, whatever its size.
C10_CoordinateBounds ==
    /\ \A k \in 1 .. Len(calls) : calls[k].outIx \in 0 .. (OUT_LINES - 1)
    /\ \A n \in 1 .. Len(reported) :
          /\ reported[n].coord.outIx \in 0 .. (OUT_LINES - 1)
          /\ reported[n].coord.inIx \in 0 .. (IN_LINES - 1)

\* C11 (scan completion): by the end of every full scan the scanner has asked the
\* sampler for each of the OUT_LINES x IN_LINES cells exactly once during that
\* scan, whatever the samples were and however many of them were missing.
AskedIn(a, b) == ((IF a = 1 THEN 0 ELSE calls[a - 1].asked) + 1) .. calls[b].asked

C11_ScanCompletion ==
    \A f \in FullScans :
        /\ \A c \in Cells :
              Cardinality({n \in AskedIn(FirstCall(f), LastCall(f)) : requested[n] = Coord(c)}) = 1
        /\ Cardinality(AskedIn(FirstCall(f), LastCall(f))) = OUT_LINES * IN_LINES

\* C13 (per-cell alternation): the events reported for one coordinate begin with
\* Down and alternate in state: no two successive events for the same coordinate
\* carry the same state, and each reported state is the coordinate's confirmed
\* state right after the report.
Successive(n, m) ==
    /\ n < m
    /\ reported[n].coord = reported[m].coord
    /\ \A j \in (n + 1) .. (m - 1) : reported[j].coord # reported[n].coord

C13_PerCellAlternation ==
    \A n \in 1 .. Len(reported) :
        /\ (\A m \in 1 .. (n - 1) : reported[m].coord # reported[n].coord)
           => reported[n].state = DOWN
        /\ \A m \in 1 .. Len(reported) :
              Successive(n, m) => reported[m].state # reported[n].state
        /\ confirmedAt(reported[n].coord, n) = reported[n].state
        /\ confirmedAt(reported[n].coord, n - 1) # reported[n].state

\* C14 (cell isolation): a call leaves alone every cell whose out line is not the
\* one it strobes (no event for it, confirmed state as before), and every event
\* reported in a call belongs to a cell that call sampled, so that a cell's
\* confirmed state changes only in calls that deliver a sample of that cell.
C14_CellIsolation ==
    \A k \in 1 .. Len(calls) :
        /\ \A c \in Cells :
              c[1] # calls[k].outIx
              => /\ EventsFor(c, k, k) = {}
                 /\ confirmedAfter(c, k) = confirmedBefore(c, k)
        /\ \A c \in Cells :
              confirmedAfter(c, k) # confirmedBefore(c, k)
              => k \in Delivered(c, k, k)

\* C12 (determinism): the events reported are a function of the calls made and the
\* samples fed to them: a second scanner started from the initial state and run
\* over the recorded feed, missing samples included, reports the very sequence
\* the first one reported, and so ends with the same confirmed state per cell.
RECURSIVE Replay(_)
Replay(feed) ==
    IF feed = << >>
    THEN << >>
    ELSE Append(Replay(SubSeq(feed, 1, Len(feed) - 1)), kmx_key)

C12_Determinism == reported = Replay(calls)

\* A feed of at least one full scan whose calls saw different samples, one of
\* them missing.
C12_Fed ==
    /\ FullScans # {}
    /\ \E k \in 1 .. Len(calls) : \E j \in 1 .. Len(calls) :
          /\ calls[k].samples # calls[j].samples
          /\ \E i \in 0 .. (IN_LINES - 1) : calls[k].samples[i] = NONE
    /\ Len(reported) >= 2
====
